---- MODULE Spec2Model ----
(***************************************************************************)
(* Model of crates/maple_core/src/stdio_server/service.rs: the             *)
(* ServiceManager (provider registry and plugin list), the provider        *)
(* session event loops (with and without debounce) and the plugin session  *)
(* event loop.  Time is a discrete clock in milliseconds; every await of a *)
(* hook is a position of the session task, so that other tasks, the        *)
(* manager and the clock can move while a hook is in flight.               *)
(***************************************************************************)
EXTENDS Integers, Sequences, FiniteSets, TLC

VARIABLES
    providers,   \* ServiceManager.providers: session id -> sender (index into sessions)
    plugins,     \* ServiceManager.plugins: Vec of senders (indices into psessions)
    manager,     \* TRUE while the ServiceManager value is alive (not dropped)
    sessions,    \* every ProviderSession ever created, in creation order
    psessions,   \* every PluginSession ever created, in creation order
    now,         \* tokio Instant::now()
    last,        \* the last call made on the ServiceManager: operation, id, event
    ncalls       \* number of calls made on the ServiceManager so far

vars == <<providers, plugins, manager, sessions, psessions, now, last, ncalls>>

----------------------------------------------------------------------------
(* Bounds of the model. *)
MaxCalls == 3
SessionMaxCalls == 4
SessionMaxTime == 75
PluginMaxCalls == 4
PluginMaxTime == 100
ListMaxCalls == 5
ListMaxTime == 50
LoopMaxCalls == 4
LoopMaxTime == 100
DelayMaxCalls == 3
DelayMaxTime == 200
TimerMaxCalls == 5
TimerMaxTime == 100

(* Inputs. *)
SessionIds == {1, 2}
KeyEvents == {1, 2}
Autocmds == {1, 2}
TickSteps == {25}
Totals == {500, 9999, 10000, 99999, 100000, 199999, 200000}

----------------------------------------------------------------------------
(* std::time::Duration / tokio::time::Instant: whole seconds and millis.   *)
from_millis(m) == [secs |-> m \div 1000, ms |-> m % 1000]
from_secs(s) == [secs |-> s, ms |-> 0]
Plus(a, b) == [secs |-> a.secs + b.secs + ((a.ms + b.ms) \div 1000),
               ms |-> (a.ms + b.ms) % 1000]
Leq(a, b) == a.secs < b.secs \/ (a.secs = b.secs /\ a.ms <= b.ms)

DelayMs == 200
DELAY == from_millis(DelayMs)
NeverSecs == 31536000
NEVER == from_secs(NeverSecs)
MoveDelayMs == 50
on_move_delay == from_millis(MoveDelayMs)
PluginDelayMs == 50

\* A timer or delay local that the task has not created yet.
Unset == [secs |-> -1, ms |-> 0]

\* A sleep future has elapsed when its deadline is not after now.
Elapsed(timer) == Leq(timer, now)

----------------------------------------------------------------------------
(* ProviderEvent.  NewSession is never sent to a running session: both     *)
(* loops assert it with unreachable!().                                    *)
OnInitialize == [t |-> "OnInitialize", key |-> 0]
Terminate == [t |-> "Terminate", key |-> 0]
Exit == [t |-> "Exit", key |-> 0]
OnMove == [t |-> "OnMove", key |-> 0]
OnTyped == [t |-> "OnTyped", key |-> 0]
Key(k) == [t |-> "Key", key |-> k]
NoEvent == [t |-> "None", key |-> 0]

ProviderEvents ==
    {OnInitialize, Terminate, Exit, OnMove, OnTyped} \cup {Key(k) : k \in KeyEvents}

\* ProviderSource as read after on_initialize: Small { total } or another variant.
Small(total) == [small |-> TRUE, total |-> total]
OtherSource == [small |-> FALSE, total |-> 0]
ProviderSources == {Small(t) : t \in Totals} \cup {OtherSource}

\* A hook invocation: the hook, its argument, how many events the session
\* had dequeued when it was invoked, and its result once it has returned.
Call(hook, arg, n) == [hook |-> hook, arg |-> arg, n |-> n, res |-> "-"]

\* Option::None for a pending autocmd payload.
None == 0
Autocmd(a) == [t |-> "Autocmd", key |-> a]

----------------------------------------------------------------------------
(* ProviderSession::new: the session value and its channel.                *)
ProviderSession_new(provider_session_id, debounce) ==
    [ provider_session_id |-> provider_session_id,
      debounce |-> debounce,
      pc |-> "spawned",
      provider_events |-> << >>,
      senders |-> 1,
      rx_open |-> TRUE,
      on_move_dirty |-> FALSE,
      on_move_timer |-> Unset,
      on_typed_dirty |-> FALSE,
      on_typed_delay |-> Unset,
      on_typed_timer |-> Unset,
      calls |-> << >>,
      enqueued |-> << >>,
      handled |-> << >> ]

(* PluginSession::create: the session value and its channel.               *)
PluginSession_create(event_delay) ==
    [ event_delay |-> event_delay,
      pc |-> "spawned",
      plugin_events |-> << >>,
      senders |-> 1,
      rx_open |-> TRUE,
      pending_autocmd |-> None,
      notification_dirty |-> FALSE,
      notification_timer |-> Unset,
      calls |-> << >>,
      enqueued |-> << >>,
      handled |-> << >> ]

(* UnboundedSender::send: enqueues unless the receiver is gone.            *)
SendOk(sess) == sess.rx_open
ProviderSend(sess, event) ==
    IF SendOk(sess)
    THEN [sess EXCEPT !.provider_events = Append(@, event),
                      !.enqueued = Append(@, event)]
    ELSE sess
PluginSend(psess, autocmd) ==
    IF SendOk(psess)
    THEN [psess EXCEPT !.plugin_events = Append(@, autocmd),
                       !.enqueued = Append(@, autocmd)]
    ELSE psess
DropSender(sess) == [sess EXCEPT !.senders = @ - 1]

Step(op, id, ev) == [op |-> op, s |-> id, ev |-> ev]

----------------------------------------------------------------------------
(* ServiceManager *)

Init ==
    /\ providers = [i \in {} |-> 0]
    /\ plugins = << >>
    /\ manager = TRUE
    /\ sessions = << >>
    /\ psessions = << >>
    /\ now = from_millis(0)
    /\ last = Step("init", 0, NoEvent)
    /\ ncalls = 0

Senders == {providers[i] : i \in DOMAIN providers}

\* A variant in which the new session is inserted without draining the registry first.
new_provider_no_drain(provider_session_id, debounce) ==
    /\ manager
    /\ IF provider_session_id \notin DOMAIN providers
       THEN /\ sessions' = Append(sessions,
                    ProviderSend(ProviderSession_new(provider_session_id, debounce),
                                 OnInitialize))
            /\ providers' = providers @@ (provider_session_id :> (Len(sessions) + 1))
       ELSE UNCHANGED <<sessions, providers>>
    /\ last' = Step("new_provider", provider_session_id, NoEvent)
    /\ ncalls' = ncalls + 1
    /\ UNCHANGED <<plugins, manager, psessions, now>>

\* A variant in which the registry is drained, but a session is only created when the id
\* was not registered before the call.
new_provider_if_absent(provider_session_id, debounce) ==
    /\ manager
    /\ LET drained == [s \in 1..Len(sessions) |->
                          IF s \in Senders
                          THEN DropSender(ProviderSend(sessions[s], Terminate))
                          ELSE sessions[s]]
       IN  IF provider_session_id \notin DOMAIN providers
           THEN /\ sessions' = Append(drained,
                        ProviderSend(ProviderSession_new(provider_session_id, debounce),
                                     OnInitialize))
                /\ providers' = (provider_session_id :> (Len(sessions) + 1))
           ELSE /\ sessions' = drained
                /\ providers' = [i \in {} |-> 0]
    /\ last' = Step("new_provider", provider_session_id, NoEvent)
    /\ ncalls' = ncalls + 1
    /\ UNCHANGED <<plugins, manager, psessions, now>>

\* A variant that drops the drained senders without sending Terminate.
new_provider_drop_only(provider_session_id, debounce) ==
    /\ manager
    /\ LET drained == [s \in 1..Len(sessions) |->
                          IF s \in Senders THEN DropSender(sessions[s])
                          ELSE sessions[s]]
       IN  /\ sessions' = Append(drained,
                    ProviderSend(ProviderSession_new(provider_session_id, debounce),
                                 OnInitialize))
           /\ providers' = (provider_session_id :> (Len(sessions) + 1))
    /\ last' = Step("new_provider", provider_session_id, NoEvent)
    /\ ncalls' = ncalls + 1
    /\ UNCHANGED <<plugins, manager, psessions, now>>

new_provider(provider_session_id, debounce) ==
    /\ manager
    /\ LET drained == [s \in 1..Len(sessions) |->
                          IF s \in Senders
                          THEN DropSender(ProviderSend(sessions[s], Terminate))
                          ELSE sessions[s]]
           emptied == [i \in {} |-> 0]
       IN  IF provider_session_id \notin DOMAIN emptied
           THEN /\ sessions' = Append(drained,
                        ProviderSend(ProviderSession_new(provider_session_id, debounce),
                                     OnInitialize))
                /\ providers' = (provider_session_id :> (Len(sessions) + 1))
           ELSE /\ sessions' = drained
                /\ providers' = emptied
    /\ last' = Step("new_provider", provider_session_id, NoEvent)
    /\ ncalls' = ncalls + 1
    /\ UNCHANGED <<plugins, manager, psessions, now>>

new_plugin ==
    /\ manager
    /\ psessions' = Append(psessions, PluginSession_create(from_millis(PluginDelayMs)))
    /\ plugins' = Append(plugins, Len(psessions) + 1)
    /\ last' = Step("new_plugin", 0, NoEvent)
    /\ ncalls' = ncalls + 1
    /\ UNCHANGED <<providers, manager, sessions, now>>

\* Vec::retain: keeps, in order, the elements for which the closure is true.
retain(v, keep(_)) == SelectSeq(v, keep)

\* Vec::swap_remove applied at every position whose send failed: the last
\* element takes the place of the removed one, so the order is not kept.
RECURSIVE swap_remove_closed(_, _)
swap_remove_closed(v, i) ==
    IF i > Len(v) THEN v
    ELSE IF SendOk(psessions[v[i]]) THEN swap_remove_closed(v, i + 1)
    ELSE LET shorter == SubSeq(v, 1, Len(v) - 1)
         IN  swap_remove_closed(IF i = Len(v) THEN shorter
                                ELSE [shorter EXCEPT ![i] = v[Len(v)]], i)

\* A variant that removes the closed handles with swap_remove.
notify_plugins_swap_remove(plugin_event) ==
    /\ manager
    /\ ncalls' = ncalls + 1
    /\ LET InList == {plugins[i] : i \in DOMAIN plugins}
           is_ok(p) == SendOk(psessions[p])
       IN  /\ psessions' = [p \in 1..Len(psessions) |->
                               IF p \in InList
                               THEN (IF is_ok(p)
                                     THEN PluginSend(psessions[p], plugin_event)
                                     ELSE DropSender(psessions[p]))
                               ELSE psessions[p]]
           /\ plugins' = swap_remove_closed(plugins, 1)
    /\ last' = Step("notify_plugins", 0, Autocmd(plugin_event))
    /\ UNCHANGED <<providers, manager, sessions, now>>

\* A variant that keeps the handles whose send failed.
notify_plugins_keep_closed(plugin_event) ==
    /\ manager
    /\ ncalls' = ncalls + 1
    /\ LET InList == {plugins[i] : i \in DOMAIN plugins}
       IN  /\ psessions' = [p \in 1..Len(psessions) |->
                               IF p \in InList
                               THEN PluginSend(psessions[p], plugin_event)
                               ELSE psessions[p]]
           /\ plugins' = plugins
    /\ last' = Step("notify_plugins", 0, Autocmd(plugin_event))
    /\ UNCHANGED <<providers, manager, sessions, now>>

notify_plugins(plugin_event) ==
    /\ manager
    /\ ncalls' = ncalls + 1
    /\ LET InList == {plugins[i] : i \in DOMAIN plugins}
           is_ok(p) == SendOk(psessions[p])
       IN  /\ psessions' = [p \in 1..Len(psessions) |->
                               IF p \in InList
                               THEN (IF is_ok(p)
                                     THEN PluginSend(psessions[p], plugin_event)
                                     ELSE DropSender(psessions[p]))
                               ELSE psessions[p]]
           /\ plugins' = retain(plugins, is_ok)
    /\ last' = Step("notify_plugins", 0, Autocmd(plugin_event))
    /\ UNCHANGED <<providers, manager, sessions, now>>

exists(provider_session_id) == provider_session_id \in DOMAIN providers

\* A variant that removes the entry and drops the sender without sending Exit.
notify_provider_exit_silent(provider_session_id) ==
    /\ manager
    /\ IF provider_session_id \in DOMAIN providers
       THEN LET s == providers[provider_session_id]
            IN  /\ providers' = [i \in DOMAIN providers \ {provider_session_id}
                                    |-> providers[i]]
                /\ sessions' = [sessions EXCEPT ![s] = DropSender(@)]
       ELSE UNCHANGED <<providers, sessions>>
    /\ ncalls' = ncalls + 1
    /\ UNCHANGED <<plugins, manager, psessions, now>>

notify_provider_exit(provider_session_id) ==
    /\ manager
    /\ IF provider_session_id \in DOMAIN providers
       THEN LET s == providers[provider_session_id]
            IN  /\ providers' = [i \in DOMAIN providers \ {provider_session_id}
                                    |-> providers[i]]
                /\ sessions' = [sessions EXCEPT
                                   ![s] = DropSender(ProviderSend(@, Exit))]
       ELSE UNCHANGED <<providers, sessions>>
    /\ ncalls' = ncalls + 1
    /\ UNCHANGED <<plugins, manager, psessions, now>>

\* A variant that sends Exit and keeps the registry entry.
try_exit_keep_entry(provider_session_id) ==
    /\ manager
    /\ ncalls' = ncalls + 1
    /\ IF exists(provider_session_id)
       THEN sessions' = [sessions EXCEPT
                            ![providers[provider_session_id]] = ProviderSend(@, Exit)]
       ELSE UNCHANGED sessions
    /\ last' = Step("try_exit", provider_session_id, NoEvent)
    /\ UNCHANGED <<providers, plugins, manager, psessions, now>>

try_exit(provider_session_id) ==
    /\ IF exists(provider_session_id)
       THEN notify_provider_exit(provider_session_id)
       ELSE /\ manager
            /\ ncalls' = ncalls + 1
            /\ UNCHANGED <<providers, plugins, manager, sessions, psessions, now>>
    /\ last' = Step("try_exit", provider_session_id, NoEvent)

terminate_and_remove(provider_session_id) ==
    /\ notify_provider_exit(provider_session_id)
    /\ last' = Step("notify_provider_exit", provider_session_id, NoEvent)

\* A variant that sends an event for an unknown id to every registered session.
notify_provider_fallback(provider_session_id, event) ==
    /\ manager
    /\ ncalls' = ncalls + 1
    /\ IF provider_session_id \in DOMAIN providers
       THEN sessions' = [sessions EXCEPT
                            ![providers[provider_session_id]] = ProviderSend(@, event)]
       ELSE sessions' = [s \in 1..Len(sessions) |->
                            IF s \in Senders THEN ProviderSend(sessions[s], event)
                            ELSE sessions[s]]
    /\ last' = Step("notify_provider", provider_session_id, event)
    /\ UNCHANGED <<providers, plugins, manager, psessions, now>>

\* A variant that hands the event over only when the session is not in a hook.
notify_provider_waits(provider_session_id, event) ==
    /\ manager
    /\ ncalls' = ncalls + 1
    /\ IF provider_session_id \in DOMAIN providers
       THEN /\ sessions[providers[provider_session_id]].pc
                  \in {"spawned", "select", "terminated", "closed"}
            /\ sessions' = [sessions EXCEPT
                               ![providers[provider_session_id]] = ProviderSend(@, event)]
       ELSE UNCHANGED sessions
    /\ last' = Step("notify_provider", provider_session_id, event)
    /\ UNCHANGED <<providers, plugins, manager, psessions, now>>

notify_provider(provider_session_id, event) ==
    /\ manager
    /\ ncalls' = ncalls + 1
    /\ IF provider_session_id \in DOMAIN providers
       THEN sessions' = [sessions EXCEPT
                            ![providers[provider_session_id]] = ProviderSend(@, event)]
       ELSE UNCHANGED sessions
    /\ last' = Step("notify_provider", provider_session_id, event)
    /\ UNCHANGED <<providers, plugins, manager, psessions, now>>

\* The ServiceManager value is dropped: every sender it holds is dropped.
drop_manager ==
    /\ manager
    /\ manager' = FALSE
    /\ sessions' = [s \in 1..Len(sessions) |->
                       IF s \in Senders THEN DropSender(sessions[s]) ELSE sessions[s]]
    /\ psessions' = [p \in 1..Len(psessions) |->
                        IF p \in {plugins[i] : i \in DOMAIN plugins}
                        THEN DropSender(psessions[p]) ELSE psessions[p]]
    /\ providers' = [i \in {} |-> 0]
    /\ plugins' = << >>
    /\ last' = Step("drop_manager", 0, NoEvent)
    /\ UNCHANGED <<now, ncalls>>

----------------------------------------------------------------------------
(* ProviderSession *)

Invoke(sess, hook, arg) ==
    [sess EXCEPT !.calls = Append(@, Call(hook, arg, Len(sess.handled))), !.pc = hook]

\* The hook in flight returns res.
Return(sess, res) == [sess EXCEPT !.calls[Len(sess.calls)].res = res]

\* on_terminate is synchronous and returns nothing.
InvokeSync(sess, hook, arg) == Return(Invoke(sess, hook, arg), "Ok")

\* The loop ends: the task finishes and drops the session with its receiver.
EndLoop(sess, how) == [sess EXCEPT !.pc = how, !.rx_open = FALSE]

Running(sess) == sess.pc \notin {"spawned", "terminated", "closed", "panicked"}
InHook(sess) == Running(sess) /\ sess.pc # "select"

\* tokio::spawn of start_event_loop: the task starts and creates its locals.
start_event_loop(sess) ==
    IF sess.debounce
    THEN [sess EXCEPT !.pc = "select",
                      !.on_move_dirty = FALSE,
                      !.on_move_timer = Plus(now, NEVER),
                      !.on_typed_dirty = FALSE,
                      !.on_typed_delay = DELAY,
                      !.on_typed_timer = Plus(now, NEVER)]
    ELSE [sess EXCEPT !.pc = "select"]

\* A variant whose thresholds include their upper ends.
adapted_typed_delay_inclusive(source, on_typed_delay) ==
    IF source.small
    THEN IF source.total <= 10000 THEN from_millis(10)
         ELSE IF source.total <= 100000 THEN from_millis(50)
         ELSE IF source.total <= 200000 THEN from_millis(100)
         ELSE on_typed_delay
    ELSE on_typed_delay

\* The typed delay chosen from the source scale after a successful on_initialize.
adapted_typed_delay(source, on_typed_delay) ==
    IF source.small
    THEN IF source.total < 10000 THEN from_millis(10)
         ELSE IF source.total < 100000 THEN from_millis(50)
         ELSE IF source.total < 200000 THEN from_millis(100)
         ELSE on_typed_delay
    ELSE on_typed_delay

\* A variant in which a Key event discards the pending typed action.
with_debounce_event_key_flush(sess, event) ==
    CASE event.t \in {"Terminate", "Exit"} ->
            EndLoop(InvokeSync(sess, "on_terminate", sess.provider_session_id),
                    "terminated")
      [] event.t = "OnInitialize" -> Invoke(sess, "on_initialize", 0)
      [] event.t = "OnMove" ->
            [sess EXCEPT !.on_move_dirty = TRUE,
                         !.on_move_timer = Plus(now, on_move_delay)]
      [] event.t = "OnTyped" ->
            [sess EXCEPT !.on_typed_dirty = TRUE,
                         !.on_typed_timer = Plus(now, sess.on_typed_delay)]
      [] event.t = "Key" ->
            Invoke([sess EXCEPT !.on_typed_dirty = FALSE], "on_key_event", event.key)

\* A variant that invokes on_terminate and stays in the loop.
with_debounce_event_no_break(sess, event) ==
    CASE event.t \in {"Terminate", "Exit"} ->
            [InvokeSync(sess, "on_terminate", sess.provider_session_id)
                EXCEPT !.pc = "select"]
      [] event.t = "OnInitialize" -> Invoke(sess, "on_initialize", 0)
      [] event.t = "OnMove" ->
            [sess EXCEPT !.on_move_dirty = TRUE,
                         !.on_move_timer = Plus(now, on_move_delay)]
      [] event.t = "OnTyped" ->
            [sess EXCEPT !.on_typed_dirty = TRUE,
                         !.on_typed_timer = Plus(now, sess.on_typed_delay)]
      [] event.t = "Key" -> Invoke(sess, "on_key_event", event.key)

\* run_event_loop_with_debounce: the recv() branch with Some(event).
with_debounce_event(sess, event) ==
    CASE event.t \in {"Terminate", "Exit"} ->
            EndLoop(InvokeSync(sess, "on_terminate", sess.provider_session_id),
                    "terminated")
      [] event.t = "OnInitialize" -> Invoke(sess, "on_initialize", 0)
      [] event.t = "OnMove" ->
            [sess EXCEPT !.on_move_dirty = TRUE,
                         !.on_move_timer = Plus(now, on_move_delay)]
      [] event.t = "OnTyped" ->
            [sess EXCEPT !.on_typed_dirty = TRUE,
                         !.on_typed_timer = Plus(now, sess.on_typed_delay)]
      [] event.t = "Key" -> Invoke(sess, "on_key_event", event.key)

\* A variant that invokes on_move after on_initialize whatever it returned.
with_debounce_return_always_move(sess, res, source) ==
    CASE sess.pc = "on_initialize" ->
            Invoke([sess EXCEPT !.on_typed_delay =
                                   IF res = "Ok"
                                   THEN adapted_typed_delay(source, sess.on_typed_delay)
                                   ELSE @],
                   "on_move", 0)
      [] sess.pc = "record_input" -> Invoke(sess, "on_typed", 0)
      [] sess.pc = "on_typed" -> Invoke(sess, "on_move", 0)
      [] sess.pc \in {"on_move", "on_key_event"} -> [sess EXCEPT !.pc = "select"]

\* run_event_loop_with_debounce: an awaited hook returns.
with_debounce_return(sess, res, source) ==
    CASE sess.pc = "on_initialize" ->
            IF res = "Ok"
            THEN Invoke([sess EXCEPT !.on_typed_delay =
                                        adapted_typed_delay(source, sess.on_typed_delay)],
                        "on_move", 0)
            ELSE [sess EXCEPT !.pc = "select"]
      [] sess.pc = "record_input" -> Invoke(sess, "on_typed", 0)
      [] sess.pc = "on_typed" -> Invoke(sess, "on_move", 0)
      [] sess.pc \in {"on_move", "on_key_event"} -> [sess EXCEPT !.pc = "select"]

\* A variant of the on_move_timer branch that also disarms the typed timer.
on_move_timer_fired_clears_both(sess) ==
    Invoke([sess EXCEPT !.on_move_dirty = FALSE,
                        !.on_move_timer = Plus(now, NEVER),
                        !.on_typed_dirty = FALSE,
                        !.on_typed_timer = Plus(now, NEVER)],
           "on_move", 0)

\* run_event_loop_with_debounce: the on_move_timer branch.
on_move_timer_fired(sess) ==
    Invoke([sess EXCEPT !.on_move_dirty = FALSE,
                        !.on_move_timer = Plus(now, NEVER)],
           "on_move", 0)

\* A variant of the on_typed_timer branch that leaves the dirty flag set.
on_typed_timer_fired_keeps_dirty(sess) ==
    Invoke([sess EXCEPT !.on_typed_timer = Plus(now, NEVER)], "record_input", 0)

\* run_event_loop_with_debounce: the on_typed_timer branch.
on_typed_timer_fired(sess) ==
    Invoke([sess EXCEPT !.on_typed_dirty = FALSE,
                        !.on_typed_timer = Plus(now, NEVER)],
           "record_input", 0)

\* A variant of the immediate loop that invokes on_terminate and goes on.
without_debounce_event_no_break(sess, event) ==
    CASE event.t \in {"Terminate", "Exit"} ->
            [InvokeSync(sess, "on_terminate", sess.provider_session_id)
                EXCEPT !.pc = "select"]
      [] event.t = "OnInitialize" -> Invoke(sess, "on_initialize", 0)
      [] event.t = "OnMove" -> Invoke(sess, "on_move", 0)
      [] event.t = "OnTyped" -> Invoke(sess, "record_input", 0)
      [] event.t = "Key" -> Invoke(sess, "on_key_event", event.key)

\* run_event_loop_without_debounce: the loop body for one event.
without_debounce_event(sess, event) ==
    CASE event.t \in {"Terminate", "Exit"} ->
            EndLoop(InvokeSync(sess, "on_terminate", sess.provider_session_id),
                    "terminated")
      [] event.t = "OnInitialize" -> Invoke(sess, "on_initialize", 0)
      [] event.t = "OnMove" -> Invoke(sess, "on_move", 0)
      [] event.t = "OnTyped" -> Invoke(sess, "record_input", 0)
      [] event.t = "Key" -> Invoke(sess, "on_key_event", event.key)

\* A variant in which a failed hook ends the loop.
without_debounce_return_abort(sess, res) ==
    IF res = "Err" THEN EndLoop(sess, "closed")
    ELSE CASE sess.pc = "on_initialize" -> Invoke(sess, "on_move", 0)
           [] sess.pc = "record_input" -> Invoke(sess, "on_typed", 0)
           [] sess.pc \in {"on_typed", "on_move", "on_key_event"} ->
                 [sess EXCEPT !.pc = "select"]

\* run_event_loop_without_debounce: an awaited hook returns.
without_debounce_return(sess, res) ==
    CASE sess.pc = "on_initialize" ->
            IF res = "Ok" THEN Invoke(sess, "on_move", 0)
            ELSE [sess EXCEPT !.pc = "select"]
      [] sess.pc = "record_input" -> Invoke(sess, "on_typed", 0)
      [] sess.pc \in {"on_typed", "on_move", "on_key_event"} ->
            [sess EXCEPT !.pc = "select"]

\* recv() takes the event at the head of the queue.
Dequeue(sess) ==
    [sess EXCEPT !.provider_events = Tail(@),
                 !.handled = Append(@, Head(sess.provider_events))]
\* A variant that hands the newest event of the queue to the handler.
NextEvent_newest(sess) == sess.provider_events[Len(sess.provider_events)]
NextEvent(sess) == Head(sess.provider_events)

SessionFrame == UNCHANGED <<providers, plugins, manager, psessions, now, last, ncalls>>

ProviderStart(s) ==
    /\ sessions[s].pc = "spawned"
    /\ sessions' = [sessions EXCEPT ![s] = start_event_loop(@)]
    /\ SessionFrame

ProviderRecv(s) ==
    /\ sessions[s].pc = "select"
    /\ sessions[s].provider_events # << >>
    /\ sessions' = [sessions EXCEPT ![s] =
                       IF @.debounce
                       THEN with_debounce_event(Dequeue(@), NextEvent(@))
                       ELSE without_debounce_event(Dequeue(@), NextEvent(@))]
    /\ SessionFrame

\* A variant in which the loop ends as soon as every sender is dropped.
ProviderClosed_eager(s) ==
    /\ sessions[s].pc = "select"
    /\ sessions[s].senders = 0
    /\ sessions' = [sessions EXCEPT ![s] = EndLoop(@, "closed")]
    /\ SessionFrame

\* recv() returns None: the queue is empty and every sender is dropped.
ProviderClosed(s) ==
    /\ sessions[s].pc = "select"
    /\ sessions[s].provider_events = << >>
    /\ sessions[s].senders = 0
    /\ sessions' = [sessions EXCEPT ![s] = EndLoop(@, "closed")]
    /\ SessionFrame

MoveTimerFired(s) ==
    /\ sessions[s].debounce
    /\ sessions[s].pc = "select"
    /\ sessions[s].on_move_dirty
    /\ Elapsed(sessions[s].on_move_timer)
    /\ sessions' = [sessions EXCEPT ![s] = on_move_timer_fired(@)]
    /\ SessionFrame

TypedTimerFired(s) ==
    /\ sessions[s].debounce
    /\ sessions[s].pc = "select"
    /\ sessions[s].on_typed_dirty
    /\ Elapsed(sessions[s].on_typed_timer)
    /\ sessions' = [sessions EXCEPT ![s] = on_typed_timer_fired(@)]
    /\ SessionFrame

ProviderReturn(s, res, source) ==
    /\ InHook(sessions[s])
    /\ sessions' = [sessions EXCEPT ![s] =
                       IF @.debounce
                       THEN with_debounce_return(Return(@, res), res, source)
                       ELSE without_debounce_return(Return(@, res), res)]
    /\ SessionFrame

----------------------------------------------------------------------------
(* PluginSession *)

\* PluginSession::start_event_loop: the task starts and creates its locals.
plugin_start_event_loop(psess) ==
    [psess EXCEPT !.pc = "select",
                  !.pending_autocmd = None,
                  !.notification_dirty = FALSE,
                  !.notification_timer = Plus(now, NEVER)]

\* A variant that keeps the payload already pending.
plugin_event_keep_first(psess, autocmd) ==
    [psess EXCEPT !.pending_autocmd = IF @ = None THEN autocmd ELSE @,
                  !.notification_dirty = TRUE,
                  !.notification_timer = Plus(now, psess.event_delay)]

\* The recv() branch with Some(PluginEvent::Autocmd(autocmd)).
plugin_event(psess, autocmd) ==
    [psess EXCEPT !.pending_autocmd = autocmd,
                  !.notification_dirty = TRUE,
                  !.notification_timer = Plus(now, psess.event_delay)]

\* A variant of the notification_timer branch that leaves the timer as it is.
notification_timer_fired_no_reset(psess) ==
    LET cleared == [psess EXCEPT !.notification_dirty = FALSE]
    IN  IF psess.pending_autocmd # None
        THEN Invoke([cleared EXCEPT !.pending_autocmd = None],
                    "on_autocmd", psess.pending_autocmd)
        ELSE cleared

\* The notification_timer branch.
notification_timer_fired(psess) ==
    LET cleared == [psess EXCEPT !.notification_dirty = FALSE,
                                 !.notification_timer = Plus(now, NEVER)]
    IN  IF psess.pending_autocmd # None
        THEN Invoke([cleared EXCEPT !.pending_autocmd = None],
                    "on_autocmd", psess.pending_autocmd)
        ELSE cleared

\* on_autocmd returns Ok or Err (logged), or panics and so ends the task.
plugin_return(psess, res) ==
    IF res = "Panic" THEN EndLoop(Return(psess, res), "panicked")
    ELSE [Return(psess, res) EXCEPT !.pc = "select"]

PluginFrame == UNCHANGED <<providers, plugins, manager, sessions, now, last, ncalls>>

PluginStart(p) ==
    /\ psessions[p].pc = "spawned"
    /\ psessions' = [psessions EXCEPT ![p] = plugin_start_event_loop(@)]
    /\ PluginFrame

PluginRecv(p) ==
    /\ psessions[p].pc = "select"
    /\ psessions[p].plugin_events # << >>
    /\ psessions' = [psessions EXCEPT ![p] =
                        plugin_event([@ EXCEPT !.plugin_events = Tail(@),
                                                !.handled = Append(@, Head(psessions[p].plugin_events))],
                                     Head(@.plugin_events))]
    /\ PluginFrame

PluginClosed(p) ==
    /\ psessions[p].pc = "select"
    /\ psessions[p].plugin_events = << >>
    /\ psessions[p].senders = 0
    /\ psessions' = [psessions EXCEPT ![p] = EndLoop(@, "closed")]
    /\ PluginFrame

NotificationTimerFired(p) ==
    /\ psessions[p].pc = "select"
    /\ psessions[p].notification_dirty
    /\ Elapsed(psessions[p].notification_timer)
    /\ psessions' = [psessions EXCEPT ![p] = notification_timer_fired(@)]
    /\ PluginFrame

PluginReturn(p, res) ==
    /\ psessions[p].pc = "on_autocmd"
    /\ psessions' = [psessions EXCEPT ![p] = plugin_return(@, res)]
    /\ PluginFrame

----------------------------------------------------------------------------
(* The clock. *)
Tick(d) ==
    /\ now' = Plus(now, from_millis(d))
    /\ UNCHANGED <<providers, plugins, manager, sessions, psessions, last, ncalls>>

----------------------------------------------------------------------------
HookResults == {"Ok", "Err"}
PluginHookResults == {"Ok", "Err", "Panic"}

(* The manager: its registry of provider sessions, whose tasks run, and    *)
(* its list of plugin sessions.                                            *)
RegistryEvents == {Key(1), Exit}

Next ==
    \/ \E id \in SessionIds :
          ncalls < MaxCalls /\ new_provider(id, FALSE)
    \/ \E id \in SessionIds : ncalls < MaxCalls /\ try_exit(id)
    \/ \E id \in SessionIds, e \in RegistryEvents :
          ncalls < MaxCalls /\ notify_provider(id, e)
    \/ \E id \in SessionIds : ncalls < MaxCalls /\ terminate_and_remove(id)
    \/ ncalls < MaxCalls /\ new_plugin
    \/ ncalls < MaxCalls /\ notify_plugins(1)
    \/ drop_manager
    \/ \E s \in 1..Len(sessions) : ProviderStart(s)
    \/ \E s \in 1..Len(sessions) : ProviderRecv(s)
    \/ \E s \in 1..Len(sessions) : ProviderClosed(s)
    \/ \E s \in 1..Len(sessions) : ProviderReturn(s, "Ok", OtherSource)

Spec == Init /\ [][Next]_vars

(* The same with fair scheduling of the session tasks and hooks that       *)
(* return: a task that can take a step eventually takes one.               *)
SessionSteps ==
    \E s \in 1..Len(sessions) :
        \/ ProviderStart(s)
        \/ ProviderRecv(s)
        \/ ProviderClosed(s)
        \/ ProviderReturn(s, "Ok", OtherSource)

FairSpec == Spec /\ WF_vars(SessionSteps)

(* One provider session, in either mode, with both hook results and the    *)
(* clock.  Initialize comes from new_provider, Exit from try_exit and       *)
(* notify_provider_exit, the other events from notify_provider.  The clock  *)
(* advances by half the delay of the move timer.                           *)
SessionSources == {Small(10000), OtherSource}
SessionEvents == {Terminate, OnMove, OnTyped, Key(1)}

SessionNext ==
    \/ \E debounce \in BOOLEAN : sessions = << >> /\ new_provider(1, debounce)
    \/ \E e \in SessionEvents :
          sessions # << >> /\ ncalls < SessionMaxCalls /\ notify_provider(1, e)
    \/ sessions # << >> /\ ncalls < SessionMaxCalls /\ try_exit(1)
    \/ sessions # << >> /\ ncalls < SessionMaxCalls /\ terminate_and_remove(1)
    \/ drop_manager
    \/ \E s \in 1..Len(sessions) : ProviderStart(s)
    \/ \E s \in 1..Len(sessions) : ProviderRecv(s)
    \/ \E s \in 1..Len(sessions) : ProviderClosed(s)
    \/ \E s \in 1..Len(sessions) : MoveTimerFired(s)
    \/ \E s \in 1..Len(sessions) : TypedTimerFired(s)
    \/ \E s \in 1..Len(sessions), res \in HookResults, source \in SessionSources :
          ProviderReturn(s, res, source)
    \/ \E d \in TickSteps : now.secs = 0 /\ now.ms + d <= SessionMaxTime /\ Tick(d)

SessionSpec == Init /\ [][SessionNext]_vars

(* One provider session and one plugin session whose hooks may fail.  No   *)
(* OnMove is dispatched, so the move timer is never armed.                 *)
LoopEvents == {OnTyped, Key(1), Exit}

LoopNext ==
    \/ \E debounce \in BOOLEAN : sessions = << >> /\ new_provider(1, debounce)
    \/ psessions = << >> /\ new_plugin
    \/ \E e \in LoopEvents :
          sessions # << >> /\ ncalls < LoopMaxCalls /\ notify_provider(1, e)
    \/ psessions # << >> /\ ncalls < LoopMaxCalls /\ notify_plugins(1)
    \/ drop_manager
    \/ \E s \in 1..Len(sessions) : ProviderStart(s)
    \/ \E s \in 1..Len(sessions) : ProviderRecv(s)
    \/ \E s \in 1..Len(sessions) : ProviderClosed(s)
    \/ \E s \in 1..Len(sessions) : TypedTimerFired(s)
    \/ \E s \in 1..Len(sessions), res \in HookResults :
          ProviderReturn(s, res, Small(10000))
    \/ \E p \in 1..Len(psessions) : PluginStart(p)
    \/ \E p \in 1..Len(psessions) : PluginRecv(p)
    \/ \E p \in 1..Len(psessions) : PluginClosed(p)
    \/ \E p \in 1..Len(psessions) : NotificationTimerFired(p)
    \/ \E p \in 1..Len(psessions), res \in HookResults : PluginReturn(p, res)
    \/ \E d \in {PluginDelayMs} :
          now.secs = 0 /\ now.ms + d <= LoopMaxTime /\ Tick(d)

LoopSpec == Init /\ [][LoopNext]_vars

(* One debounced provider session with every source scale; OnInitialize is *)
(* sent by new_provider only.  The clock advances by the move delay, up to  *)
(* the longest typed delay.                                                *)
DelayEvents == {OnMove, OnTyped}

DelayNext ==
    \/ sessions = << >> /\ new_provider(1, TRUE)
    \/ \E e \in DelayEvents :
          sessions # << >> /\ ncalls < DelayMaxCalls /\ notify_provider(1, e)
    \/ \E s \in 1..Len(sessions) : ProviderStart(s)
    \/ \E s \in 1..Len(sessions) : ProviderRecv(s)
    \/ \E s \in 1..Len(sessions) : MoveTimerFired(s)
    \/ \E s \in 1..Len(sessions) : TypedTimerFired(s)
    \/ \E s \in 1..Len(sessions), res \in HookResults, source \in ProviderSources :
          ProviderReturn(s, res, source)
    \/ \E d \in {MoveDelayMs} :
          now.secs = 0 /\ now.ms + d <= DelayMaxTime /\ Tick(d)

DelaySpec == Init /\ [][DelayNext]_vars

(* One debounced provider session and one plugin session with their three *)
(* timers, hooks that succeed, and the clock.                              *)
TimerNext ==
    \/ sessions = << >> /\ new_provider(1, TRUE)
    \/ psessions = << >> /\ new_plugin
    \/ \E e \in DelayEvents :
          sessions # << >> /\ ncalls < TimerMaxCalls /\ notify_provider(1, e)
    \/ psessions # << >> /\ ncalls < TimerMaxCalls /\ notify_plugins(1)
    \/ \E s \in 1..Len(sessions) : ProviderStart(s)
    \/ \E s \in 1..Len(sessions) : ProviderRecv(s)
    \/ \E s \in 1..Len(sessions) : MoveTimerFired(s)
    \/ \E s \in 1..Len(sessions) : TypedTimerFired(s)
    \/ \E s \in 1..Len(sessions) : ProviderReturn(s, "Ok", Small(10000))
    \/ \E p \in 1..Len(psessions) : PluginStart(p)
    \/ \E p \in 1..Len(psessions) : PluginRecv(p)
    \/ \E p \in 1..Len(psessions) : NotificationTimerFired(p)
    \/ \E p \in 1..Len(psessions) : PluginReturn(p, "Ok")
    \/ \E d \in {MoveDelayMs} :
          now.secs = 0 /\ now.ms + d <= TimerMaxTime /\ Tick(d)

TimerSpec == Init /\ [][TimerNext]_vars

(* The plugin list and the plugin session tasks, with the clock, and the   *)
(* manager's provider operations, which leave the plugin list alone; the   *)
(* provider session tasks, which cannot reach the plugin list, do not run.  *)
PluginsNext ==
    \/ ncalls < PluginMaxCalls /\ new_plugin
    \/ \E a \in Autocmds : ncalls < PluginMaxCalls /\ notify_plugins(a)
    \/ ncalls < PluginMaxCalls /\ new_provider(1, FALSE)
    \/ ncalls < PluginMaxCalls /\ notify_provider(1, Key(1))
    \/ ncalls < PluginMaxCalls /\ try_exit(1)
    \/ ncalls < PluginMaxCalls /\ terminate_and_remove(1)
    \/ drop_manager
    \/ \E p \in 1..Len(psessions) : PluginStart(p)
    \/ \E p \in 1..Len(psessions) : PluginRecv(p)
    \/ \E p \in 1..Len(psessions) : PluginClosed(p)
    \/ \E p \in 1..Len(psessions) : NotificationTimerFired(p)
    \/ \E p \in 1..Len(psessions), res \in PluginHookResults : PluginReturn(p, res)
    \/ \E d \in {PluginDelayMs} :
          now.secs = 0 /\ now.ms + d <= PluginMaxTime /\ Tick(d)

PluginSpec == Init /\ [][PluginsNext]_vars

(* The plugin list with up to five manager calls, so that three handles    *)
(* can be listed when a session that panicked is removed.  The plugin      *)
(* session tasks run, with a hook that returns or panics, and the clock    *)
(* advances once by the plugin delay; the manager's provider operations    *)
(* are called as well and leave the list alone.  Every notify_plugins call *)
(* carries a payload no earlier call carried, so that each enqueued copy   *)
(* is told apart from the others.                                          *)
ListHookResults == {"Ok", "Panic"}
FreshAutocmd == ncalls + 1

ListNext ==
    \/ ncalls < ListMaxCalls /\ new_plugin
    \/ \E a \in {FreshAutocmd} : ncalls < ListMaxCalls /\ notify_plugins(a)
    \/ ncalls < ListMaxCalls /\ new_provider(1, FALSE)
    \/ ncalls < ListMaxCalls /\ notify_provider(1, Key(1))
    \/ ncalls < ListMaxCalls /\ try_exit(1)
    \/ drop_manager
    \/ \E p \in 1..Len(psessions) : PluginStart(p)
    \/ \E p \in 1..Len(psessions) : PluginRecv(p)
    \/ \E p \in 1..Len(psessions) : PluginClosed(p)
    \/ \E p \in 1..Len(psessions) : NotificationTimerFired(p)
    \/ \E p \in 1..Len(psessions), res \in ListHookResults : PluginReturn(p, res)
    \/ \E d \in {PluginDelayMs} :
          now.secs = 0 /\ now.ms + d <= ListMaxTime /\ Tick(d)

ListSpec == Init /\ [][ListNext]_vars

----------------------------------------------------------------------------
(* Properties of the provider registry, checked under Spec. *)

\* C1: in every reachable state, after any sequence of manager operations,
\* the provider registry holds at most one entry.
C1_AtMostOneProvider == Cardinality(DOMAIN providers) <= 1

\* A second provider was registered under another id while the first was
\* still registered, and the registry holds one entry.
C1_Witness ==
    /\ last.op = "new_provider"
    /\ Len(sessions) = 2
    /\ sessions[1].provider_session_id # sessions[2].provider_session_id
    /\ Terminate \in {sessions[1].enqueued[i] : i \in DOMAIN sessions[1].enqueued}
    /\ Cardinality(DOMAIN providers) = 1

\* The step taken is a call of new_provider.
IsNewProviderStep == ncalls' = ncalls + 1 /\ last'.op = "new_provider"

\* What every new_provider call does besides signalling the old sessions:
\* sessions outside the registry are untouched, a fresh session is spawned
\* with Initialize as the first event of its queue, and the registry holds
\* exactly the entry for the id, pointing at the fresh session.
FreshSessionRegistered ==
    /\ \A s \in (1..Len(sessions)) \ Senders : sessions'[s] = sessions[s]
    /\ Len(sessions') = Len(sessions) + 1
    /\ sessions'[Len(sessions')].pc = "spawned"
    /\ sessions'[Len(sessions')].provider_session_id = last'.s
    /\ sessions'[Len(sessions')].provider_events = <<OnInitialize>>
    /\ sessions'[Len(sessions')].enqueued = <<OnInitialize>>
    /\ providers' = (last'.s :> Len(sessions'))

\* C2 as stated: every new_provider call enqueues exactly one Terminate to
\* each session that was in the registry, starts a fresh session whose queue
\* has Initialize first, and leaves exactly the entry for the id.
C2_Original ==
    [][IsNewProviderStep =>
          /\ \A s \in Senders :
                sessions'[s].provider_events =
                    Append(sessions[s].provider_events, Terminate)
          /\ FreshSessionRegistered]_vars

\* C2 amended: exactly one Terminate is enqueued to each registered session
\* whose loop has not ended; the send to a registered session whose loop has
\* already ended (its receiver is dropped) enqueues nothing; the registry
\* drops its sender of every old session; the rest as stated.
C2_TerminateToLiveSessions ==
    [][IsNewProviderStep =>
          /\ \A s \in Senders :
                /\ sessions'[s].provider_events =
                      IF sessions[s].rx_open
                      THEN Append(sessions[s].provider_events, Terminate)
                      ELSE sessions[s].provider_events
                /\ sessions'[s].senders = 0
          /\ FreshSessionRegistered]_vars

\* The same id is registered again while its first session is still live:
\* the first session got Terminate, the second is fresh and registered.
C2_Witness ==
    /\ last.op = "new_provider"
    /\ Len(sessions) = 2
    /\ sessions[1].provider_session_id = sessions[2].provider_session_id
    /\ sessions[1].enqueued = <<OnInitialize, Terminate>>
    /\ sessions[2].provider_events = <<OnInitialize>>
    /\ providers = (sessions[2].provider_session_id :> 2)

\* C7: notify_provider and try_exit on an id that is not registered change
\* neither the registry nor the plugin list, and enqueue nothing to any
\* provider or plugin session.
C7_UnknownIdNoOp ==
    [][(/\ ncalls' = ncalls + 1
        /\ last'.op \in {"notify_provider", "try_exit"}
        /\ last'.s \notin DOMAIN providers)
       => UNCHANGED <<providers, plugins, sessions, psessions, manager>>]_vars

\* An event was dispatched to an unknown id while another id is registered
\* and a plugin is in the list.
C7_Witness ==
    /\ last.op = "notify_provider"
    /\ last.s \notin DOMAIN providers
    /\ DOMAIN providers # {}
    /\ plugins # << >>

----------------------------------------------------------------------------
(* Properties of one provider session, checked under SessionSpec. *)

\* The step dequeues an event in session s.
IsRecvStep(s) == Len(sessions'[s].handled) = Len(sessions[s].handled) + 1
\* The event dequeued by the step.
Received(s) == sessions'[s].handled[Len(sessions'[s].handled)]
\* The hook invocations the step starts in session s.
NewCalls(s) ==
    SubSeq(sessions'[s].calls, Len(sessions[s].calls) + 1, Len(sessions'[s].calls))
\* The debounce locals of a session.
DebounceLocals(sess) ==
    <<sess.on_move_dirty, sess.on_move_timer,
      sess.on_typed_dirty, sess.on_typed_timer, sess.on_typed_delay>>
\* The step is the return of the hook that session s was awaiting.
Returned(s) ==
    LET k == Len(sessions[s].calls) IN
        /\ k > 0
        /\ sessions[s].calls[k].res = "-"
        /\ sessions'[s].calls[k].res # "-"
Hooks(calls) == [i \in DOMAIN calls |-> calls[i].hook]
Ended(pc) == pc \in {"terminated", "closed"}

\* C5: in both modes a dequeued Key event invokes on_key_event exactly once
\* in the step that dequeues it, whatever the dirty flags, and neither that
\* step nor the return of the hook changes a dirty flag, a timer or the
\* typed delay.
C5_KeyImmediate ==
    [][\A s \in DOMAIN sessions :
          /\ (IsRecvStep(s) /\ Received(s).t = "Key") =>
                /\ Len(NewCalls(s)) = 1
                /\ NewCalls(s)[1].hook = "on_key_event"
                /\ NewCalls(s)[1].arg = Received(s).key
                /\ sessions'[s].pc = "on_key_event"
                /\ DebounceLocals(sessions'[s]) = DebounceLocals(sessions[s])
          /\ (sessions[s].pc = "on_key_event" /\ Returned(s)) =>
                /\ sessions'[s].pc = "select"
                /\ NewCalls(s) = << >>
                /\ DebounceLocals(sessions'[s]) = DebounceLocals(sessions[s])]_vars

\* A debounced session ran on_key_event for a Key dequeued after an OnTyped
\* whose debounced on_typed is still pending.
C5_Witness ==
    \E s \in DOMAIN sessions :
        /\ sessions[s].debounce
        /\ sessions[s].pc = "select"
        /\ sessions[s].on_typed_dirty
        /\ [i \in DOMAIN sessions[s].handled |-> sessions[s].handled[i].t]
              = <<"OnInitialize", "OnTyped", "Key">>
        /\ Hooks(sessions[s].calls) = <<"on_initialize", "on_move", "on_key_event">>

\* C8: in both modes dequeuing Terminate or Exit invokes on_terminate once
\* with the session id and ends the loop; an ended session invokes no hook,
\* dequeues no event and fires no timer, so a pending debounced hook and the
\* events left in the queue are never handled; on_terminate is the last call
\* of a terminated session and no other session has an on_terminate call.
TerminateCalls(sess) ==
    {i \in DOMAIN sess.calls : sess.calls[i].hook = "on_terminate"}

C8_TerminatedForGood(sess) ==
    IF sess.pc = "terminated"
    THEN /\ TerminateCalls(sess) = {Len(sess.calls)}
         /\ sess.handled[Len(sess.handled)].t \in {"Terminate", "Exit"}
    ELSE TerminateCalls(sess) = {}

C8_TerminateOnce ==
    [][\A s \in DOMAIN sessions :
          /\ (IsRecvStep(s) /\ Received(s).t \in {"Terminate", "Exit"}) =>
                /\ Len(NewCalls(s)) = 1
                /\ NewCalls(s)[1].hook = "on_terminate"
                /\ NewCalls(s)[1].arg = sessions[s].provider_session_id
                /\ sessions'[s].pc = "terminated"
          /\ sessions[s].pc = "terminated" =>
                /\ sessions'[s].pc = "terminated"
                /\ sessions'[s].calls = sessions[s].calls
                /\ sessions'[s].handled = sessions[s].handled
                /\ DebounceLocals(sessions'[s]) = DebounceLocals(sessions[s])
          /\ C8_TerminatedForGood(sessions'[s])]_vars

\* A debounced session terminated with a debounced on_typed pending, its
\* timer expired, and an event left in its queue.
C8_Witness ==
    \E s \in DOMAIN sessions :
        /\ sessions[s].debounce
        /\ sessions[s].pc = "terminated"
        /\ sessions[s].on_typed_dirty
        /\ Elapsed(sessions[s].on_typed_timer)
        /\ sessions[s].provider_events # << >>
        /\ Hooks(sessions[s].calls) = <<"on_initialize", "on_move", "on_terminate">>

\* C10: the events a session does not debounce are handled in the order
\* they were enqueued, one at a time: the queue is first in first out, every
\* such event has its hook invoked in the step that dequeues it, the hooks
\* are invoked in the order of their events, and a hook has returned before
\* the next one is invoked.
Debounced(sess, event) == sess.debounce /\ event.t \in {"OnMove", "OnTyped"}

FirstCall(event, id) ==
    CASE event.t \in {"Terminate", "Exit"} -> [hook |-> "on_terminate", arg |-> id]
      [] event.t = "OnInitialize" -> [hook |-> "on_initialize", arg |-> 0]
      [] event.t = "OnMove" -> [hook |-> "on_move", arg |-> 0]
      [] event.t = "OnTyped" -> [hook |-> "record_input", arg |-> 0]
      [] event.t = "Key" -> [hook |-> "on_key_event", arg |-> event.key]

C10_InOrder ==
    \A s \in DOMAIN sessions :
        LET sess == sessions[s]
            calls == sess.calls
        IN  /\ sess.handled \o sess.provider_events = sess.enqueued
            /\ \A i \in 1..(Len(calls) - 1) :
                  calls[i].res # "-" /\ calls[i].n <= calls[i + 1].n
            /\ \A k \in DOMAIN sess.handled :
                  ~Debounced(sess, sess.handled[k]) =>
                     \E i \in DOMAIN calls :
                        /\ calls[i].n = k
                        /\ calls[i].hook =
                              FirstCall(sess.handled[k], sess.provider_session_id).hook
                        /\ calls[i].arg =
                              FirstCall(sess.handled[k], sess.provider_session_id).arg
                        /\ i = 1 \/ calls[i - 1].n < k

\* An immediate session handled OnInitialize, OnTyped, Key and OnMove, which
\* were all in its queue together, in that order.
C10_Witness ==
    \E s \in DOMAIN sessions :
        /\ ~sessions[s].debounce
        /\ sessions[s].pc = "on_move"
        /\ sessions[s].enqueued = <<OnInitialize, OnTyped, Key(1), OnMove>>
        /\ sessions[s].handled = sessions[s].enqueued
        /\ Hooks(sessions[s].calls) =
              <<"on_initialize", "record_input", "on_typed", "on_key_event", "on_move">>

\* C3: in debounced mode dequeuing an OnTyped invokes no hook: it sets the
\* dirty flag and arms the typed timer to now plus the typed delay; input is
\* recorded and on_typed invoked only by the typed timer branch, which needs
\* the flag set and the timer armed by the last OnTyped expired, and which
\* clears the flag, so that a burst of OnTyped events gets one on_typed;
\* the return of on_typed invokes on_move once; and between two invocations
\* of on_typed the session dequeued a new OnTyped.
TypedCalls(sess) == {i \in DOMAIN sess.calls : sess.calls[i].hook = "on_typed"}

C3_OnePerBurst(sess) ==
    \A j \in TypedCalls(sess) :
        /\ j > 1 /\ sess.calls[j - 1].hook = "record_input"
        /\ sess.calls[j - 1].n = sess.calls[j].n
        /\ j < Len(sess.calls) =>
              /\ sess.calls[j + 1].hook = "on_move"
              /\ sess.calls[j + 1].n = sess.calls[j].n
        /\ \E k \in 1..sess.calls[j].n :
              /\ sess.handled[k].t = "OnTyped"
              /\ \A i \in TypedCalls(sess) : i < j => sess.calls[i].n < k

C3_TypedDebounced ==
    [][\A s \in DOMAIN sessions :
          sessions[s].debounce =>
            /\ (IsRecvStep(s) /\ Received(s).t = "OnTyped") =>
                  /\ NewCalls(s) = << >>
                  /\ sessions'[s].pc = "select"
                  /\ sessions'[s].on_typed_dirty
                  /\ sessions'[s].on_typed_timer = Plus(now, sessions[s].on_typed_delay)
            /\ (NewCalls(s) # << >> /\ NewCalls(s)[1].hook = "record_input") =>
                  /\ ~IsRecvStep(s)
                  /\ sessions[s].pc = "select"
                  /\ sessions[s].on_typed_dirty
                  /\ Elapsed(sessions[s].on_typed_timer)
                  /\ ~sessions'[s].on_typed_dirty
            /\ (NewCalls(s) # << >> /\ NewCalls(s)[1].hook = "on_typed") =>
                  sessions[s].pc = "record_input" /\ Returned(s)
            /\ (sessions[s].pc = "on_typed" /\ Returned(s)) =>
                  Hooks(NewCalls(s)) = <<"on_move">>
            /\ (sessions[s].pc = "on_move" /\ Returned(s)) =>
                  NewCalls(s) = << >> /\ sessions'[s].pc = "select"
            /\ (sessions[s].pc = "select"
                /\ sessions'[s].on_typed_timer # sessions[s].on_typed_timer) =>
                  \/ IsRecvStep(s) /\ Received(s).t = "OnTyped"
                  \/ Hooks(NewCalls(s)) = <<"record_input">>
            /\ C3_OnePerBurst(sessions'[s])]_vars

\* A debounced session dequeued a burst of two OnTyped at time 0 with a
\* typed delay of 50 ms, and at 50 ms has run on_typed once and then on_move.
C3_Witness ==
    \E s \in DOMAIN sessions :
        /\ sessions[s].debounce
        /\ sessions[s].pc = "select"
        /\ now = from_millis(50)
        /\ sessions[s].on_typed_delay = from_millis(50)
        /\ sessions[s].handled = <<OnInitialize, OnTyped, OnTyped>>
        /\ Hooks(sessions[s].calls) =
              <<"on_initialize", "on_move", "record_input", "on_typed", "on_move">>
        /\ ~sessions[s].on_typed_dirty

----------------------------------------------------------------------------
(* Properties of the session loops, checked under LoopSpec. *)

\* The step is the return of the hook that plugin session p was awaiting.
PluginReturned(p) ==
    LET k == Len(psessions[p].calls) IN
        /\ k > 0
        /\ psessions[p].calls[k].res = "-"
        /\ psessions'[p].calls[k].res # "-"

Failed(calls) == {i \in DOMAIN calls : calls[i].res = "Err"}

\* C9: a hook that returns an error does not end the loop.  In both provider
\* modes the return of a failed hook leaves the session running with its
\* queue, dirty flags and timers as they were, and the handler goes on (a
\* failed on_typed is still followed by on_move in debounced mode); in the
\* plugin loop a failed on_autocmd leaves the session selecting with its
\* queue, flag and timer as they were.  A provider loop ends only by
\* dequeuing Terminate or Exit, or when its queue is empty and closed.
C9_FailureKeepsLoop ==
    [][/\ \A s \in DOMAIN sessions :
            /\ (Returned(s) /\ sessions'[s].calls[Len(sessions[s].calls)].res = "Err") =>
                  /\ Running(sessions'[s])
                  /\ sessions'[s].rx_open
                  /\ sessions'[s].provider_events = sessions[s].provider_events
                  /\ DebounceLocals(sessions'[s]) = DebounceLocals(sessions[s])
                  /\ sessions[s].pc = "on_typed" /\ sessions[s].debounce =>
                        Hooks(NewCalls(s)) = <<"on_move">>
                  /\ sessions[s].pc \in {"on_initialize", "on_move", "on_key_event"} =>
                        sessions'[s].pc = "select"
            /\ (~Ended(sessions[s].pc) /\ Ended(sessions'[s].pc)) =>
                  \/ /\ IsRecvStep(s)
                     /\ Received(s).t \in {"Terminate", "Exit"}
                     /\ sessions'[s].pc = "terminated"
                  \/ /\ sessions[s].pc = "select"
                     /\ sessions[s].provider_events = << >>
                     /\ sessions[s].senders = 0
                     /\ sessions'[s].pc = "closed"
       /\ \A p \in DOMAIN psessions :
            (PluginReturned(p) /\ psessions'[p].calls[Len(psessions[p].calls)].res = "Err") =>
                  /\ psessions'[p].pc = "select"
                  /\ psessions'[p].rx_open
                  /\ psessions'[p].plugin_events = psessions[p].plugin_events
                  /\ psessions'[p].notification_dirty = psessions[p].notification_dirty
                  /\ psessions'[p].notification_timer = psessions[p].notification_timer
                  /\ psessions'[p].pending_autocmd = psessions[p].pending_autocmd]_vars

\* A provider session whose on_initialize failed went on to run the hook of
\* a later Key event, and a plugin session whose on_autocmd failed is still
\* selecting on an open queue.
C9_Witness ==
    /\ \E s \in DOMAIN sessions :
          /\ Hooks(sessions[s].calls) = <<"on_initialize", "on_key_event">>
          /\ sessions[s].calls[1].res = "Err"
          /\ Running(sessions[s])
    /\ \E p \in DOMAIN psessions :
          /\ Failed(psessions[p].calls) = {1}
          /\ psessions[p].pc = "select"
          /\ psessions[p].rx_open

----------------------------------------------------------------------------
(* Properties of the plugin sessions, checked under PluginSpec, and of the   *)
(* plugin list, checked under ListSpec.                                     *)

IsPluginRecvStep(p) == Len(psessions'[p].handled) = Len(psessions[p].handled) + 1
PluginNewCalls(p) ==
    SubSeq(psessions'[p].calls, Len(psessions[p].calls) + 1, Len(psessions'[p].calls))

\* Every on_autocmd call got the payload of the last event dequeued before
\* it, and a new event was dequeued between two calls.
LastPayloadOnly(psess) ==
    \A j \in DOMAIN psess.calls :
        /\ psess.calls[j].hook = "on_autocmd"
        /\ psess.calls[j].n >= 1
        /\ psess.calls[j].arg = psess.handled[psess.calls[j].n]
        /\ \A i \in 1..(j - 1) : psess.calls[i].n < psess.calls[j].n

\* Dequeuing an autocmd invokes nothing: it replaces the pending payload,
\* sets the flag and arms the timer; on_autocmd is invoked only by the timer
\* branch, with the flag set and the timer of the last event expired, and
\* the branch clears the flag and takes the payload.
AutocmdDebounced(p) ==
    /\ IsPluginRecvStep(p) =>
          /\ PluginNewCalls(p) = << >>
          /\ psessions'[p].pending_autocmd =
                psessions'[p].handled[Len(psessions'[p].handled)]
          /\ psessions'[p].notification_dirty
          /\ psessions'[p].notification_timer = Plus(now, psessions[p].event_delay)
    /\ PluginNewCalls(p) # << >> =>
          /\ Len(PluginNewCalls(p)) = 1
          /\ psessions[p].pc = "select"
          /\ psessions[p].notification_dirty
          /\ Elapsed(psessions[p].notification_timer)
          /\ ~psessions'[p].notification_dirty
          /\ psessions'[p].pending_autocmd = None
    /\ LastPayloadOnly(psessions'[p])

\* C4 as stated: every burst of autocmd events gets exactly one on_autocmd,
\* with the payload of its last event, so that no session ends its loop
\* with a dequeued burst that was never passed to the hook.
C4_Original ==
    \A p \in DOMAIN psessions :
        /\ LastPayloadOnly(psessions[p])
        /\ psessions[p].pc = "closed" => ~psessions[p].notification_dirty

\* C4: a burst of autocmd events gets at most one on_autocmd, invoked by the
\* timer armed by its last event and with the payload of that event, and
\* never a payload of an earlier event; a burst is left without its call
\* only in a session whose loop ended because its queue was closed, or whose
\* timer has not fired yet.
C4_LastPayloadOnce ==
    [][\A p \in DOMAIN psessions :
          /\ AutocmdDebounced(p)
          /\ (psessions[p].notification_dirty /\ ~psessions'[p].notification_dirty) =>
                Hooks(PluginNewCalls(p)) = <<"on_autocmd">>
          /\ (psessions'[p].notification_dirty /\ psessions'[p].pc # "select") =>
                /\ psessions'[p].pc = "closed"
                /\ psessions'[p].senders = 0
                /\ psessions'[p].plugin_events = << >>]_vars

\* A plugin session dequeued a burst of two autocmds at time 0 and at 50 ms
\* has invoked on_autocmd once, with the second payload.
C4_Witness ==
    \E p \in DOMAIN psessions :
        /\ now = from_millis(PluginDelayMs)
        /\ psessions[p].handled = <<1, 2>>
        /\ Len(psessions[p].calls) = 1
        /\ psessions[p].calls[1].arg = 2
        /\ ~psessions[p].notification_dirty

\* C6: notify_plugins removes from the plugin list exactly the handles whose
\* channel is closed, keeps the others in their original relative order and
\* enqueues one copy of the event to each of them and to no other session;
\* every other step that leaves the manager alive keeps the list as a prefix
\* of the new list.  Checked under ListSpec, where up to three handles are
\* listed when a handle is removed.
IsNotifyPluginsStep == ncalls' = ncalls + 1 /\ last'.op = "notify_plugins"
Handles(list) == {list[i] : i \in DOMAIN list}
Position(list, h) == CHOOSE i \in DOMAIN list : list[i] = h

C6_RemovesClosedOnly ==
    [][IF IsNotifyPluginsStep
       THEN LET open == {h \in Handles(plugins) : psessions[h].rx_open} IN
            /\ Handles(plugins') = open
            /\ Len(plugins') = Cardinality(open)
            /\ \A i, j \in DOMAIN plugins' :
                  i < j => Position(plugins, plugins'[i]) < Position(plugins, plugins'[j])
            /\ \A p \in DOMAIN psessions :
                  psessions'[p].plugin_events =
                     IF p \in open
                     THEN Append(psessions[p].plugin_events, last'.ev.key)
                     ELSE psessions[p].plugin_events
       ELSE manager' =>
            /\ Len(plugins') >= Len(plugins)
            /\ SubSeq(plugins', 1, Len(plugins)) = plugins]_vars

\* Three handles were listed and the session of the first had panicked:
\* notify_plugins has just removed the first handle, kept the second and the
\* third in that order, and delivered the event to both of them.
C6_Witness ==
    /\ manager
    /\ last.op = "notify_plugins"
    /\ Len(psessions) = 3
    /\ psessions[1].pc = "panicked"
    /\ psessions[1].senders = 0
    /\ plugins = <<2, 3>>
    /\ \A q \in {2, 3} :
          /\ psessions[q].enqueued # << >>
          /\ psessions[q].enqueued[Len(psessions[q].enqueued)] = last.ev.key


----------------------------------------------------------------------------
(* Properties of the manager and its provider sessions, checked under Spec. *)

\* The sessions whose task has started and whose loop has not ended.
Active == {s \in DOMAIN sessions : Running(sessions[s])}
\* A Terminate or Exit is waiting in the queue of the session.
TerminationPending(sess) ==
    \E k \in DOMAIN sess.provider_events :
        sess.provider_events[k].t \in {"Terminate", "Exit"}

\* C11 as stated: at most one provider session has started its loop and not
\* yet ended it.
C11_Original == Cardinality(Active) <= 1

\* C11: while the manager lives, at most one provider session that has not
\* ended has no Terminate or Exit waiting in its queue, and no session
\* outside the registry is without one: a superseded session stays active
\* until it dequeues its Terminate.
C11_OneNotSuperseded ==
    manager =>
        /\ Cardinality({s \in DOMAIN sessions :
                           /\ ~Ended(sessions[s].pc)
                           /\ ~TerminationPending(sessions[s])}) <= 1
        /\ \A s \in DOMAIN sessions :
              (~Ended(sessions[s].pc) /\ ~TerminationPending(sessions[s])) =>
                  s \in Senders

\* Two sessions are inside a hook at once: a superseded one, whose Terminate
\* waits in its queue, and the one that superseded it.
C11_Witness ==
    \E s, t \in DOMAIN sessions :
        /\ s # t
        /\ InHook(sessions[s]) /\ TerminationPending(sessions[s])
        /\ InHook(sessions[t]) /\ t \in Senders


----------------------------------------------------------------------------
(* Further properties of one provider session, checked under SessionSpec. *)

IsTermination(event) == event.t \in {"Terminate", "Exit"}
\* The step sends an event to session s.
IsSendStep(s) == Len(sessions'[s].enqueued) = Len(sessions[s].enqueued) + 1

\* C12 as stated: once a Terminate or Exit has been sent to a session, the
\* session dequeues no other event: after the hook in flight the next event
\* it processes is that Terminate or Exit.
C12_Original ==
    [][\A s \in DOMAIN sessions :
          (TerminationPending(sessions[s]) /\ IsRecvStep(s)) =>
              IsTermination(Received(s))]_vars

\* C12: sending Terminate or Exit interrupts nothing: the send only appends
\* to the queue and leaves the hook in flight, the calls and the handled
\* events as they are.  The session handles the events queued ahead of the
\* Terminate or Exit, in order; when it dequeues it, it invokes on_terminate
\* once and ends; no event after the first Terminate or Exit dequeued is
\* ever handled.
C12_TerminateInTurn ==
    [][\A s \in DOMAIN sessions :
          /\ IsSendStep(s) =>
                /\ sessions'[s].pc = sessions[s].pc
                /\ sessions'[s].calls = sessions[s].calls
                /\ sessions'[s].handled = sessions[s].handled
                /\ sessions'[s].provider_events =
                      Append(sessions[s].provider_events,
                             sessions'[s].enqueued[Len(sessions'[s].enqueued)])
          /\ IsRecvStep(s) =>
                /\ Received(s) = Head(sessions[s].provider_events)
                /\ IsTermination(Received(s)) =>
                      /\ Hooks(NewCalls(s)) = <<"on_terminate">>
                      /\ Ended(sessions'[s].pc)
          /\ \A k \in 1..(Len(sessions'[s].handled) - 1) :
                ~IsTermination(sessions'[s].handled[k])
          /\ Cardinality(TerminateCalls(sessions'[s])) <= 1]_vars

\* A session handled the Key event queued ahead of its Terminate, then the
\* Terminate, and left the event sent after the Terminate in its queue.
C12_Witness ==
    \E s \in DOMAIN sessions :
        /\ sessions[s].pc = "terminated"
        /\ sessions[s].enqueued = <<OnInitialize, Key(1), Terminate, Key(1)>>
        /\ sessions[s].handled = <<OnInitialize, Key(1), Terminate>>
        /\ \E i \in DOMAIN sessions[s].calls :
              sessions[s].calls[i].hook = "on_key_event" /\ sessions[s].calls[i].n = 2


----------------------------------------------------------------------------
(* Further properties of the manager, checked under Spec. *)

\* C13: while a session is inside a hook, which may never return, every
\* operation of the manager can still be taken, for every id; an event
\* dispatched to the session in the hook is appended to its queue; and every
\* other session can take the step it is at: start, dequeue, or return.
C13_NeverWaits ==
    \A s \in DOMAIN sessions :
        InHook(sessions[s]) =>
            /\ manager =>
                  /\ \A id \in SessionIds :
                        /\ ENABLED new_provider(id, FALSE)
                        /\ ENABLED notify_provider(id, Key(1))
                        /\ ENABLED try_exit(id)
                        /\ ENABLED terminate_and_remove(id)
                  /\ ENABLED new_plugin
                  /\ ENABLED notify_plugins(1)
            /\ (manager /\ s \in Senders) =>
                  ENABLED (/\ notify_provider(sessions[s].provider_session_id, Key(1))
                           /\ sessions'[s].provider_events =
                                 Append(sessions[s].provider_events, Key(1))
                           /\ sessions'[s].pc = sessions[s].pc)
            /\ \A t \in DOMAIN sessions \ {s} :
                  /\ sessions[t].pc = "spawned" => ENABLED ProviderStart(t)
                  /\ (sessions[t].pc = "select" /\ sessions[t].provider_events # << >>)
                        => ENABLED ProviderRecv(t)
                  /\ InHook(sessions[t]) => ENABLED ProviderReturn(t, "Ok", OtherSource)

\* A session is inside on_initialize while its queue has grown by a Key
\* event and a Terminate, and the session that superseded it is in a hook.
C13_Witness ==
    \E s, t \in DOMAIN sessions :
        /\ s # t
        /\ sessions[s].pc = "on_initialize"
        /\ sessions[s].provider_events = <<Key(1), Terminate>>
        /\ InHook(sessions[t])


\* The result with which the hook awaited by session s returns in the step.
Result(s) == sessions'[s].calls[Len(sessions[s].calls)].res

\* C14 as stated: in both modes on_initialize is followed by one on_move,
\* whether it succeeded or failed.
C14_Original ==
    [][\A s \in DOMAIN sessions :
          (sessions[s].pc = "on_initialize" /\ Returned(s)) =>
              Hooks(NewCalls(s)) = <<"on_move">>]_vars

\* C14: in both modes dequeuing OnInitialize invokes on_initialize; when it
\* returns Ok the handler invokes on_move once, and when it returns an error
\* the handler invokes nothing more and the loop selects again; the return
\* of that on_move, with either result, only brings the loop back to select.
C14_MoveAfterSuccess ==
    [][\A s \in DOMAIN sessions :
          /\ (IsRecvStep(s) /\ Received(s).t = "OnInitialize") =>
                Hooks(NewCalls(s)) = <<"on_initialize">>
          /\ (sessions[s].pc = "on_initialize" /\ Returned(s)) =>
                IF Result(s) = "Ok"
                THEN /\ Hooks(NewCalls(s)) = <<"on_move">>
                     /\ sessions'[s].pc = "on_move"
                ELSE /\ NewCalls(s) = << >>
                     /\ sessions'[s].pc = "select"
          /\ (sessions[s].pc = "on_move" /\ Returned(s)) =>
                /\ NewCalls(s) = << >>
                /\ sessions'[s].pc = "select"
                /\ sessions'[s].rx_open]_vars

\* A session has handled OnInitialize completely: on_initialize failed, no
\* on_move was invoked, and the loop is selecting again.
C14_Witness ==
    \E s \in DOMAIN sessions :
        /\ sessions[s].pc = "select"
        /\ sessions[s].handled = <<OnInitialize>>
        /\ Hooks(sessions[s].calls) = <<"on_initialize">>
        /\ sessions[s].calls[1].res = "Err"


----------------------------------------------------------------------------
(* Properties of the debounce delays, checked under DelaySpec. *)

\* The typed delay after a successful on_initialize, by the reported total.
ClaimedDelay(source, delay) ==
    IF ~source.small THEN delay
    ELSE IF source.total < 10000 THEN from_millis(10)
    ELSE IF 10000 <= source.total /\ source.total < 100000 THEN from_millis(50)
    ELSE IF 100000 <= source.total /\ source.total < 200000 THEN from_millis(100)
    ELSE delay

\* C15: the typed delay of a debounced session starts at 200 ms; the return
\* of on_initialize with Ok sets it to 10, 50 or 100 ms by the total of a
\* small source and leaves it at 200 ms for a total of 200,000 or more and
\* for a source without a total; a failed on_initialize leaves it at 200 ms;
\* no other step changes it; an OnMove arms the move timer 50 ms ahead and
\* an OnTyped arms the typed timer by the typed delay.
C15_TypedDelay ==
    [][\A s \in DOMAIN sessions :
          sessions[s].debounce =>
            /\ sessions[s].pc = "spawned" =>
                  sessions'[s].on_typed_delay \in {Unset, from_millis(200)}
            /\ (sessions[s].pc = "spawned" /\ sessions'[s].pc = "select") =>
                  sessions'[s].on_typed_delay = from_millis(200)
            /\ \A res \in HookResults, source \in ProviderSources :
                  (sessions[s].pc = "on_initialize" /\ ProviderReturn(s, res, source)) =>
                      /\ sessions[s].on_typed_delay = from_millis(200)
                      /\ sessions'[s].on_typed_delay =
                            IF res = "Ok"
                            THEN ClaimedDelay(source, from_millis(200))
                            ELSE from_millis(200)
            /\ sessions'[s].on_typed_delay # sessions[s].on_typed_delay =>
                  \/ sessions[s].pc = "spawned"
                  \/ /\ sessions[s].pc = "on_initialize"
                     /\ Returned(s)
                     /\ Result(s) = "Ok"
            /\ (IsRecvStep(s) /\ Received(s).t = "OnMove") =>
                  sessions'[s].on_move_timer = Plus(now, from_millis(50))
            /\ (IsRecvStep(s) /\ Received(s).t = "OnTyped") =>
                  sessions'[s].on_typed_timer = Plus(now, sessions[s].on_typed_delay)]_vars

\* After on_initialize succeeded with a total below 10,000 the typed delay is
\* 10 ms and an OnTyped dequeued at time 0 has armed the typed timer to 10 ms.
C15_Witness ==
    \E s \in DOMAIN sessions :
        /\ sessions[s].debounce
        /\ sessions[s].calls # << >>
        /\ sessions[s].calls[1].hook = "on_initialize"
        /\ sessions[s].calls[1].res = "Ok"
        /\ sessions[s].on_typed_delay = from_millis(10)
        /\ sessions[s].on_typed_dirty
        /\ sessions[s].on_typed_timer = from_millis(10)


----------------------------------------------------------------------------
(* Properties of the two timers, checked under SessionSpec. *)

\* The step is a timer branch of session s: a hook starts at the select
\* without an event being dequeued.
IsTimerStep(s) ==
    /\ sessions[s].pc = "select"
    /\ ~IsRecvStep(s)
    /\ NewCalls(s) # << >>

\* C16: in debounced mode a firing of the move timer needs the move flag,
\* clears it, sets the move timer to never and invokes on_move once and
\* nothing else, leaving the typed flag and timer as they are; a firing of
\* the typed timer needs the typed flag, clears it, sets the typed timer to
\* never, records the input and invokes on_typed once and then on_move once,
\* leaving the move flag and timer as they are; the returns of these hooks
\* change no flag and no timer.
C16_TimersIndependent ==
    [][\A s \in DOMAIN sessions :
          sessions[s].debounce =>
            /\ IsTimerStep(s) =>
                  \/ /\ Hooks(NewCalls(s)) = <<"on_move">>
                     /\ sessions[s].on_move_dirty
                     /\ ~sessions'[s].on_move_dirty
                     /\ sessions'[s].on_move_timer = Plus(now, NEVER)
                     /\ sessions'[s].on_typed_dirty = sessions[s].on_typed_dirty
                     /\ sessions'[s].on_typed_timer = sessions[s].on_typed_timer
                  \/ /\ Hooks(NewCalls(s)) = <<"record_input">>
                     /\ sessions[s].on_typed_dirty
                     /\ ~sessions'[s].on_typed_dirty
                     /\ sessions'[s].on_typed_timer = Plus(now, NEVER)
                     /\ sessions'[s].on_move_dirty = sessions[s].on_move_dirty
                     /\ sessions'[s].on_move_timer = sessions[s].on_move_timer
            /\ (Returned(s) /\ sessions[s].pc \in {"on_move", "record_input", "on_typed"}) =>
                  /\ Hooks(NewCalls(s)) =
                        CASE sessions[s].pc = "on_move" -> << >>
                          [] sessions[s].pc = "record_input" -> <<"on_typed">>
                          [] sessions[s].pc = "on_typed" -> <<"on_move">>
                  /\ sessions'[s].on_move_dirty = sessions[s].on_move_dirty
                  /\ sessions'[s].on_move_timer = sessions[s].on_move_timer
                  /\ sessions'[s].on_typed_dirty = sessions[s].on_typed_dirty
                  /\ sessions'[s].on_typed_timer = sessions[s].on_typed_timer]_vars

\* With an OnMove and an OnTyped both pending, the move timer has fired:
\* on_move is in flight, the move flag is cleared and the move timer set to
\* never, while the typed flag is still set and the typed timer still armed.
C16_Witness ==
    \E s \in DOMAIN sessions :
        /\ sessions[s].debounce
        /\ sessions[s].pc = "on_move"
        /\ sessions[s].handled = <<OnInitialize, OnMove, OnTyped>>
        /\ Hooks(sessions[s].calls) = <<"on_initialize", "on_move", "on_move">>
        /\ ~sessions[s].on_move_dirty
        /\ sessions[s].on_move_timer.secs >= NeverSecs
        /\ sessions[s].on_typed_dirty
        /\ sessions[s].on_typed_timer.secs < NeverSecs


----------------------------------------------------------------------------
(* Further properties of the session loops, checked under LoopSpec. *)

\* C17: in both modes a provider session whose senders are all dropped and
\* whose queue holds no Terminate or Exit never terminates through
\* on_terminate; its loop ends as closed only at the select with the queue
\* empty and every sender dropped, so after every queued event was dequeued,
\* and that step invokes nothing; a closed session has handled everything
\* that was enqueued and has no on_terminate call.  A plugin loop ends only
\* in the same way.
C17_ClosedQueue ==
    [][/\ \A s \in DOMAIN sessions :
            /\ (/\ sessions[s].senders = 0
                /\ ~Ended(sessions[s].pc)
                /\ ~TerminationPending(sessions[s])) =>
                  sessions'[s].pc # "terminated"
            /\ (sessions[s].pc # "closed" /\ sessions'[s].pc = "closed") =>
                  /\ sessions[s].pc = "select"
                  /\ sessions[s].provider_events = << >>
                  /\ sessions[s].senders = 0
                  /\ sessions'[s].calls = sessions[s].calls
            /\ sessions'[s].pc = "closed" =>
                  /\ sessions'[s].handled = sessions'[s].enqueued
                  /\ TerminateCalls(sessions'[s]) = {}
                  /\ \A k \in DOMAIN sessions'[s].handled :
                        ~IsTermination(sessions'[s].handled[k])
       /\ \A p \in DOMAIN psessions :
            /\ (psessions[p].pc \in {"select", "on_autocmd"}
                /\ psessions'[p].pc \notin {"select", "on_autocmd"}) =>
                  /\ psessions'[p].pc = "closed"
                  /\ psessions[p].pc = "select"
                  /\ psessions[p].plugin_events = << >>
                  /\ psessions[p].senders = 0
                  /\ psessions'[p].calls = psessions[p].calls
            /\ psessions'[p].pc = "closed" =>
                  psessions'[p].handled = psessions'[p].enqueued]_vars

\* After the manager was dropped, a provider session has handled the Key
\* event of its queue and ended without on_terminate, and a plugin session
\* has dequeued its autocmd and ended.
C17_Witness ==
    /\ ~manager
    /\ \E s \in DOMAIN sessions :
          /\ sessions[s].pc = "closed"
          /\ sessions[s].handled = <<OnInitialize, Key(1)>>
          /\ TerminateCalls(sessions[s]) = {}
          /\ \E i \in DOMAIN sessions[s].calls : sessions[s].calls[i].hook = "on_key_event"
    /\ \E p \in DOMAIN psessions :
          /\ psessions[p].pc = "closed"
          /\ psessions[p].handled # << >>


----------------------------------------------------------------------------
(* Properties of the exit operations, checked under Spec. *)

\* The step is try_exit(id) or notify_provider_exit(id).
IsExitStep(id) ==
    /\ ncalls' = ncalls + 1
    /\ last'.op \in {"try_exit", "notify_provider_exit"}
    /\ last'.s = id

\* The step removes the entry of id, when there is one, and changes, of all
\* the sessions, only the one it pointed at, whose sender it drops.
RemovesEntry(id) ==
    /\ id \notin DOMAIN providers'
    /\ \A i \in DOMAIN providers \ {id} :
          i \in DOMAIN providers' /\ providers'[i] = providers[i]
    /\ DOMAIN providers' \subseteq DOMAIN providers
    /\ Len(sessions') = Len(sessions)
    /\ \A t \in DOMAIN sessions :
          IF id \in DOMAIN providers /\ t = providers[id]
          THEN /\ sessions'[t].senders = 0
               /\ sessions'[t].pc = sessions[t].pc
               /\ sessions'[t].calls = sessions[t].calls
          ELSE sessions'[t] = sessions[t]
    /\ UNCHANGED <<plugins, psessions, manager>>

\* C18 as stated: try_exit(id) and notify_provider_exit(id) have the same
\* effect: they remove the entry of a registered id and enqueue one Exit to
\* its session.
C18_Original ==
    [][\A id \in SessionIds :
          IsExitStep(id) =>
            /\ RemovesEntry(id)
            /\ id \in DOMAIN providers =>
                  sessions'[providers[id]].provider_events =
                     Append(sessions[providers[id]].provider_events, Exit)]_vars

\* C18: try_exit(id) and notify_provider_exit(id) have the same effect in
\* every registry state: each try_exit(id) step is a notify_provider_exit(id)
\* step; both remove the entry of a registered id, so that exists(id) is
\* false after the call, and enqueue one Exit to its session when the loop of
\* that session has not ended, and nothing when it has; both change nothing
\* for an id that is not registered; and a session whose sender was dropped
\* gets no event any more.
C18_ExitEquivalent ==
    [][/\ \A id \in SessionIds :
            /\ try_exit(id) => notify_provider_exit(id)
            /\ IsExitStep(id) =>
                  /\ RemovesEntry(id)
                  /\ ~exists(id)'
                  /\ id \in DOMAIN providers =>
                        sessions'[providers[id]].provider_events =
                           IF sessions[providers[id]].rx_open
                           THEN Append(sessions[providers[id]].provider_events, Exit)
                           ELSE sessions[providers[id]].provider_events
       /\ \A s \in DOMAIN sessions :
            sessions[s].senders = 0 =>
               sessions'[s].enqueued = sessions[s].enqueued]_vars

\* try_exit has just removed the entry of a registered session and left an
\* Exit at the end of its queue.
C18_Witness ==
    /\ last.op = "try_exit"
    /\ ~exists(last.s)
    /\ \E s \in DOMAIN sessions :
          /\ sessions[s].provider_session_id = last.s
          /\ sessions[s].senders = 0
          /\ sessions[s].provider_events # << >>
          /\ sessions[s].provider_events[Len(sessions[s].provider_events)] = Exit


----------------------------------------------------------------------------
(* Termination of removed sessions, checked under FairSpec. *)

\* A Terminate or Exit was sent to the session.
TerminationSent(sess) ==
    \E k \in DOMAIN sess.enqueued : IsTermination(sess.enqueued[k])

\* The manager dropped the sender of session s with a Terminate or Exit sent.
Removed(s) ==
    /\ s \in DOMAIN sessions
    /\ sessions[s].senders = 0
    /\ TerminationSent(sessions[s])

TerminatedOnce(s) ==
    /\ s \in DOMAIN sessions
    /\ sessions[s].pc = "terminated"
    /\ Cardinality(TerminateCalls(sessions[s])) = 1

\* C19: while the manager lives, every session whose sender the manager has
\* dropped was sent a Terminate or Exit, and no session has ended through
\* the closed queue; and with fair scheduling and hooks that return, every
\* such session eventually ends with exactly one on_terminate call.
C19_RemovedTerminates ==
    /\ [](manager =>
            \A s \in DOMAIN sessions :
                /\ sessions[s].senders = 0 => TerminationSent(sessions[s])
                /\ sessions[s].pc # "closed")
    /\ \A s \in 1..MaxCalls : Removed(s) ~> TerminatedOnce(s)

\* A session superseded by new_provider, and so out of the registry, has ended
\* with its one on_terminate call while the manager lives.
C19_Witness ==
    /\ manager
    /\ \E s \in DOMAIN sessions :
          /\ s \notin Senders
          /\ sessions[s].senders = 0
          /\ sessions[s].handled # << >>
          /\ sessions[s].handled[Len(sessions[s].handled)] = Terminate
          /\ TerminatedOnce(s)


----------------------------------------------------------------------------
(* Properties of the flags and timers, checked under TimerSpec. *)

\* The deadline of the timer is at most the longest delay ahead.
Armed(timer) == timer.secs >= 0 /\ Leq(timer, Plus(now, DELAY))
\* The timer was reset to a year after an instant that is not in the future.
SetToNever(timer) ==
    /\ Leq(NEVER, timer)
    /\ Leq(timer, Plus(now, NEVER))

\* C20: whenever a session loop is at its select, each dirty flag is true
\* exactly when its timer is armed to a deadline a delay ahead and false
\* exactly when its timer is set to never: the move and typed flags of a
\* debounced provider session and the notification flag of a plugin session,
\* which has a pending autocmd exactly when its flag is true.
C20_FlagIffArmed ==
    /\ \A s \in DOMAIN sessions :
          (sessions[s].debounce /\ sessions[s].pc = "select") =>
              /\ sessions[s].on_move_dirty <=> Armed(sessions[s].on_move_timer)
              /\ ~sessions[s].on_move_dirty <=> SetToNever(sessions[s].on_move_timer)
              /\ sessions[s].on_typed_dirty <=> Armed(sessions[s].on_typed_timer)
              /\ ~sessions[s].on_typed_dirty <=> SetToNever(sessions[s].on_typed_timer)
    /\ \A p \in DOMAIN psessions :
          psessions[p].pc = "select" =>
              /\ psessions[p].notification_dirty <=> Armed(psessions[p].notification_timer)
              /\ ~psessions[p].notification_dirty <=>
                    SetToNever(psessions[p].notification_timer)
              /\ psessions[p].notification_dirty <=> psessions[p].pending_autocmd # None

\* At their selects a provider session has its move flag set again after a
\* firing and its typed flag clear, and a plugin session has its flag set
\* with an autocmd pending.
C20_Witness ==
    /\ \E s \in DOMAIN sessions :
          /\ sessions[s].debounce
          /\ sessions[s].pc = "select"
          /\ sessions[s].on_move_dirty
          /\ ~sessions[s].on_typed_dirty
          /\ Len(sessions[s].calls) >= 3
    /\ \E p \in DOMAIN psessions :
          /\ psessions[p].pc = "select"
          /\ psessions[p].notification_dirty
          /\ psessions[p].pending_autocmd = 1

====
